---- MODULE Spec2Model ----
(***************************************************************************)
(* A model of contour-rs (SenseLabsDE fork): the grid abstraction          *)
(* (src/src/grid.rs), the marching-squares case table and the              *)
(* ring-stitching engine (src/src/isoringbuilder.rs) and the               *)
(* contour / isoband layer (src/src/contourbuilder.rs).                    *)
(*                                                                         *)
(* Coordinates of ring points are half-integers in the program; the model  *)
(* keeps every point DOUBLED, <<2x, 2y>>, so that all arithmetic is exact  *)
(* integer arithmetic.  Sample values and thresholds are integers.         *)
(***************************************************************************)
EXTENDS Integers, Sequences, FiniteSets, TLC

VARIABLES
    grid,               \* the Grid handed to compute / the TiledBuffer under construction
    threshold,          \* the threshold of the running compute call
    fragment_by_start,  \* IsoRingBuilder.fragment_by_start : key -> slot
    fragment_by_end,    \* IsoRingBuilder.fragment_by_end   : key -> slot
    f,                  \* IsoRingBuilder.f : the Slab of fragments
    is_empty,           \* IsoRingBuilder.is_empty
    result,             \* compute's local `result` : the rings emitted so far
    pc,                 \* position of the caller: "idle", "scan", "done", "failed"
    ei,                 \* index of the extent being scanned (1-based)
    wx,                 \* x of the cell window being scanned
    wy,                 \* y of the cell window being scanned
    es,                 \* the extents compute iterates over (values.extents())
    calls,              \* number of compute calls started on this builder
    call,               \* the arguments of the last set_tile call and the tiles before it
    dirty,              \* history: the builder held fragments or keys when the running
                        \* compute call was entered
    ret,                \* what the last finished call returned
    cfg,                \* the ContourBuilder configuration
    out                 \* the output of the last contour-layer call

vars == <<grid, threshold, fragment_by_start, fragment_by_end, f, is_empty,
          result, pc, ei, wx, wy, es, calls, call, dirty, ret, cfg, out>>

(***************************************************************************)
(* Bounds of the model.                                                    *)
(***************************************************************************)
MaxW == 3          \* widest small Buffer
MaxH == 3          \* tallest small Buffer
MaxCalls == 2      \* compute calls on one builder
MaxTilesW == 2     \* TiledBuffer width, in tiles
MaxTilesH == 2     \* TiledBuffer height, in tiles (set_tile and extents)

\* Option::None of get_point (samples are never negative in the model).
None == -1

\* The empty map (FxHashMap::default()).
EmptyMap == [k \in {} |-> 0]

Min(a, b) == IF a < b THEN a ELSE b
Abs(a) == IF a < 0 THEN -a ELSE a

(***************************************************************************)
(* Grids.  One record shape for Buffer and TiledBuffer:                    *)
(*   Buffer      : kind "buffer", width x height samples, tiles = <<data>> *)
(*   TiledBuffer : kind "tiled", width x height tiles of ts x ts samples,  *)
(*                 tiles[i] = <<>> for a tile that has not been set.       *)
(*   NoDataMask  : kind "mask", the wrapped grid and the sentinel.         *)
(***************************************************************************)
Buffer(data, width, height) ==
    [kind |-> "buffer", ts |-> 0, width |-> width, height |-> height,
     tiles |-> <<data>>]

NoDataMask(inner, no_data) ==
    [kind |-> "mask", inner |-> inner, no_data |-> no_data]

TiledBuffer_new(ts, width, height) ==
    [kind |-> "tiled", ts |-> ts, width |-> width, height |-> height,
     tiles |-> [i \in 1..(width * height) |-> <<>>]]

\* Variant of Buffer_new: only data that is too short is refused.
Buffer_new_short_only(data, width, height) ==
    IF Len(data) < width * height
    THEN <<Buffer(<<>>, 0, 0), [ok |-> FALSE, kind |-> "BadDimension", rings |-> <<>>]>>
    ELSE <<Buffer(data, width, height), [ok |-> TRUE, kind |-> "Ok", rings |-> <<>>]>>

\* Buffer::new : <<the buffer, what the call returned>>; no buffer is
\* returned with an error.
Buffer_new(data, width, height) ==
    IF Len(data) # width * height
    THEN <<Buffer(<<>>, 0, 0), [ok |-> FALSE, kind |-> "BadDimension", rings |-> <<>>]>>
    ELSE <<Buffer(data, width, height), [ok |-> TRUE, kind |-> "Ok", rings |-> <<>>]>>

Buffer_get_point(g, x, y) ==
    IF x < 0 \/ y < 0 \/ x >= g.width \/ y >= g.height
    THEN None
    ELSE LET i == y * g.width + x
         IN IF i < Len(g.tiles[1]) THEN g.tiles[1][i + 1] ELSE None

TiledBuffer_get_point(g, x, y) ==
    IF x < 0 \/ y < 0
    THEN None
    ELSE LET t_x == x \div g.ts
             t_y == y \div g.ts
         IN IF t_x >= g.width \/ t_y >= g.height
            THEN None
            ELSE LET rel_x == x % g.ts
                     rel_y == y % g.ts
                     tile == g.tiles[t_y * g.width + t_x + 1]
                     i == rel_y * g.ts + rel_x
                 IN IF i < Len(tile) THEN tile[i + 1] ELSE None

\* What a call returned: Ok(..), Err(kind), or a panic of the program.
Pending == [ok |-> TRUE, kind |-> "pending", rings |-> <<>>]
Ok(rings) == [ok |-> TRUE, kind |-> "Ok", rings |-> rings]
Err(kind) == [ok |-> FALSE, kind |-> kind, rings |-> <<>>]
Panic == [ok |-> FALSE, kind |-> "panic", rings |-> <<>>]

\* TiledBuffer::set_tile : <<the buffer after the call, what the call returned>>.
\* self.tiles[i] = data panics when i is not an index of self.tiles.
set_tile(g, x, y, data) ==
    IF Len(data) # g.ts * g.ts \/ x > g.width \/ y > g.height
    THEN <<g, Err("BadDimension")>>
    ELSE LET i == y * g.width + x
         IN IF i >= Len(g.tiles)
            THEN <<g, Panic>>
            ELSE <<[g EXCEPT !.tiles[i + 1] = data], Ok(<<>>)>>

\* Variant of filter_no_data: nothing is filtered.
filter_nothing(v, no_data) == v

\* Option::filter(|&v| v != self.no_data)
filter_no_data(v, no_data) == IF v # None /\ v # no_data THEN v ELSE None

RECURSIVE get_point(_, _, _)
get_point(g, x, y) ==
    IF g.kind = "buffer" THEN Buffer_get_point(g, x, y)
    ELSE IF g.kind = "tiled" THEN TiledBuffer_get_point(g, x, y)
    ELSE filter_no_data(get_point(g.inner, x, y), g.no_data)

RECURSIVE size(_)
size(g) ==
    IF g.kind = "buffer" THEN <<g.width + 2, g.height + 2>>
    ELSE IF g.kind = "tiled" THEN <<g.width * g.ts + 2, g.height * g.ts + 2>>
    ELSE size(g.inner)

has_tile(g, x, y) ==
    IF x < 0 \/ y < 0 \/ x >= g.width \/ y >= g.height
    THEN FALSE
    ELSE LET i == y * g.width + x
         IN i < Len(g.tiles) /\ Len(g.tiles[i + 1]) # 0

\* An Extent: inclusive rectangle, top_left (tlx, tly), bottom_right (brx, bry).
\* `no` is the number of the extent in the diagram of TiledBuffer::extents
\* (0 for the base extent) and `tile` the index of the tile that produced it.
Extent(no, tile, tlx, tly, brx, bry) ==
    [no |-> no, tile |-> tile, tlx |-> tlx, tly |-> tly, brx |-> brx, bry |-> bry]

Buffer_extents(g) == << Extent(0, 0, -1, -1, g.width, g.height) >>

\* The extents one tile (index idx, 0-based) contributes.
TileExtents(g, idx) ==
    IF Len(g.tiles[idx + 1]) = 0
    THEN <<>>
    ELSE LET t_y == idx \div g.width
             t_x == idx % g.width
             t_s == g.ts
             tlx == t_x * t_s
             tly == t_y * t_s
             brx == (t_x + 1) * t_s - 1
             bry == (t_y + 1) * t_s - 1
             base == << Extent(0, idx, tlx, tly, brx, bry),
                        Extent(1, idx, tlx - 1, bry, tlx, bry + 1),
                        Extent(2, idx, tlx - 1, tly, tlx, bry),
                        Extent(3, idx, tlx - 1, tly - 1, tlx, tly),
                        Extent(4, idx, tlx, tly - 1, brx, tly) >>
             e5 == IF has_tile(g, t_x + 1, t_y - 1)
                   THEN << Extent(5, idx, brx, tly - 1, brx + 1, tly) >> ELSE <<>>
             e6 == IF has_tile(g, t_x + 1, t_y)
                   THEN << Extent(6, idx, brx, tly, brx + 1, bry) >> ELSE <<>>
             e7 == IF has_tile(g, t_x + 1, t_y + 1)
                   THEN << Extent(7, idx, brx, bry, brx + 1, bry + 1) >> ELSE <<>>
             e8 == IF has_tile(g, t_x, t_y + 1)
                   THEN << Extent(8, idx, tlx, bry, brx, bry + 1) >> ELSE <<>>
         IN base \o e5 \o e6 \o e7 \o e8

RECURSIVE TiledExtentsFrom(_, _)
TiledExtentsFrom(g, idx) ==
    IF idx >= Len(g.tiles) THEN <<>>
    ELSE TileExtents(g, idx) \o TiledExtentsFrom(g, idx + 1)

TiledBuffer_extents(g) == TiledExtentsFrom(g, 0)

RECURSIVE extents(_)
extents(g) ==
    IF g.kind = "buffer" THEN Buffer_extents(g)
    ELSE IF g.kind = "tiled" THEN TiledBuffer_extents(g)
    ELSE extents(g.inner)

(***************************************************************************)
(* The case table, in doubled coordinates: CASES[code + 1] is the list of  *)
(* segments <<start, end>> of the 4-bit code.                              *)
(***************************************************************************)
\* Variant of CASES: the entries of codes 1 and 2 have changed places.
CASES_1_2_swapped ==
    << << >>,
       << << <<3, 2>>, <<2, 3>> >> >>,
       << << <<2, 3>>, <<1, 2>> >> >>,
       << << <<3, 2>>, <<1, 2>> >> >>,
       << << <<2, 1>>, <<3, 2>> >> >>,
       << << <<2, 3>>, <<1, 2>> >>, << <<2, 1>>, <<3, 2>> >> >>,
       << << <<2, 1>>, <<2, 3>> >> >>,
       << << <<2, 1>>, <<1, 2>> >> >>,
       << << <<1, 2>>, <<2, 1>> >> >>,
       << << <<2, 3>>, <<2, 1>> >> >>,
       << << <<1, 2>>, <<2, 1>> >>, << <<3, 2>>, <<2, 3>> >> >>,
       << << <<3, 2>>, <<2, 1>> >> >>,
       << << <<1, 2>>, <<3, 2>> >> >>,
       << << <<2, 3>>, <<3, 2>> >> >>,
       << << <<1, 2>>, <<2, 3>> >> >>,
       << >> >>

CASES ==
    << << >>,
       << << <<2, 3>>, <<1, 2>> >> >>,
       << << <<3, 2>>, <<2, 3>> >> >>,
       << << <<3, 2>>, <<1, 2>> >> >>,
       << << <<2, 1>>, <<3, 2>> >> >>,
       << << <<2, 3>>, <<1, 2>> >>, << <<2, 1>>, <<3, 2>> >> >>,
       << << <<2, 1>>, <<2, 3>> >> >>,
       << << <<2, 1>>, <<1, 2>> >> >>,
       << << <<1, 2>>, <<2, 1>> >> >>,
       << << <<2, 3>>, <<2, 1>> >> >>,
       << << <<1, 2>>, <<2, 1>> >>, << <<3, 2>>, <<2, 3>> >> >>,
       << << <<3, 2>>, <<2, 1>> >> >>,
       << << <<1, 2>>, <<3, 2>> >> >>,
       << << <<2, 3>>, <<3, 2>> >> >>,
       << << <<1, 2>>, <<2, 3>> >> >>,
       << >> >>

(***************************************************************************)
(* The Slab of fragments: entries[k] is occupied by a Fragment or vacant   *)
(* and linked into the free list that starts at `next`.                    *)
(***************************************************************************)
Fragment(start, end, ring) ==
    [occ |-> TRUE, nxt |-> 0, start |-> start, end |-> end, ring |-> ring]

Vacant(nxt) == [occ |-> FALSE, nxt |-> nxt, start |-> 0, end |-> 0, ring |-> <<>>]

Slab_new == [entries |-> <<>>, next |-> 0]

Slab_contains(s, key) == key < Len(s.entries) /\ s.entries[key + 1].occ

\* The key the next insert will use.
Slab_vacant_key(s) == s.next

Slab_insert(s, frag) ==
    LET key == s.next
    IN IF key = Len(s.entries)
       THEN [entries |-> Append(s.entries, frag), next |-> key + 1]
       ELSE [entries |-> [s.entries EXCEPT ![key + 1] = frag],
             next |-> s.entries[key + 1].nxt]

Slab_remove(s, key) ==
    [entries |-> [s.entries EXCEPT ![key + 1] = Vacant(s.next)], next |-> key]

Slab_get(s, key) == s.entries[key + 1]

Slab_set(s, key, frag) == [s EXCEPT !.entries[key + 1] = frag]

\* The occupied slots.
Live(s) == {k \in 0..(Len(s.entries) - 1) : s.entries[k + 1].occ}

MapInsert(m, k, v) == [j \in DOMAIN m \cup {k} |-> IF j = k THEN v ELSE m[j]]
MapRemove(m, k) == [j \in DOMAIN m \ {k} |-> m[j]]

(***************************************************************************)
(* IsoRingBuilder::index : the quantized key of a point.  `width` is       *)
(* size().0 of the grid; the f64 -> usize cast saturates at 0.             *)
(***************************************************************************)
\* index without the row stride: points of different rows share keys.
index_no_row_stride(width, point) ==
    LET v == point[1] + point[2]
    IN IF v < 0 THEN 0 ELSE v

index(width, point) ==
    LET v == point[1] + point[2] * ((width + 2) * 2)
    IN IF v < 0 THEN 0 ELSE v

(***************************************************************************)
(* The state stitch works on, and stitch itself.  err is "" while all is   *)
(* well, "Unexpected" when stitch returned that error and "panic" when a   *)
(* Slab removal hit a vacant slot.                                         *)
(***************************************************************************)
Builder(fbs, fbe, slab, res, err) ==
    [fragment_by_start |-> fbs, fragment_by_end |-> fbe, f |-> slab,
     result |-> res, err |-> err]

Fail(b, err) == [b EXCEPT !.err = err]

\* stitch_join with the closing point of a ring forgotten (no f.ring.push(end)).
stitch_join_no_push(b, f_ix, g_ix, end) ==
    IF f_ix = g_ix
    THEN IF ~Slab_contains(b.f, f_ix) THEN Fail(b, "panic")
         ELSE LET fr == Slab_get(b.f, f_ix)
              IN [b EXCEPT !.f = Slab_remove(b.f, f_ix),
                           !.result = Append(b.result, fr.ring)]
    ELSE IF ~Slab_contains(b.f, f_ix) \/ ~Slab_contains(b.f, g_ix)
         THEN Fail(b, "panic")
         ELSE LET fr == Slab_get(b.f, f_ix)
                  gr == Slab_get(b.f, g_ix)
                  s1 == Slab_remove(Slab_remove(b.f, f_ix), g_ix)
                  ix == Slab_vacant_key(s1)
                  s2 == Slab_insert(s1, Fragment(fr.start, gr.end, fr.ring \o gr.ring))
              IN [b EXCEPT !.f = s2,
                           !.fragment_by_start = MapInsert(b.fragment_by_start, fr.start, ix),
                           !.fragment_by_end = MapInsert(b.fragment_by_end, gr.end, ix)]

\* Both end points known: close the ring or splice two fragments.
\* f_ix is the fragment that ends at the segment's start, g_ix the one that
\* starts at the segment's end.
stitch_join(b, f_ix, g_ix, end) ==
    IF f_ix = g_ix
    THEN IF ~Slab_contains(b.f, f_ix) THEN Fail(b, "panic")
         ELSE LET fr == Slab_get(b.f, f_ix)
              IN [b EXCEPT !.f = Slab_remove(b.f, f_ix),
                           !.result = Append(b.result, Append(fr.ring, end))]
    ELSE IF ~Slab_contains(b.f, f_ix) \/ ~Slab_contains(b.f, g_ix)
         THEN Fail(b, "panic")
         ELSE LET fr == Slab_get(b.f, f_ix)
                  gr == Slab_get(b.f, g_ix)
                  s1 == Slab_remove(Slab_remove(b.f, f_ix), g_ix)
                  ix == Slab_vacant_key(s1)
                  s2 == Slab_insert(s1, Fragment(fr.start, gr.end, fr.ring \o gr.ring))
              IN [b EXCEPT !.f = s2,
                           !.fragment_by_start = MapInsert(b.fragment_by_start, fr.start, ix),
                           !.fragment_by_end = MapInsert(b.fragment_by_end, gr.end, ix)]

stitch(b, width, line, x, y) ==
    LET start == <<line[1][1] + 2 * x, line[1][2] + 2 * y>>
        end == <<line[2][1] + 2 * x, line[2][2] + 2 * y>>
        start_index == index(width, start)
        end_index == index(width, end)
    IN IF start_index \in DOMAIN b.fragment_by_end
       THEN IF end_index \in DOMAIN b.fragment_by_start
            THEN LET f_ix == b.fragment_by_end[start_index]
                     g_ix == b.fragment_by_start[end_index]
                     b1 == [b EXCEPT
                              !.fragment_by_end = MapRemove(b.fragment_by_end, start_index),
                              !.fragment_by_start = MapRemove(b.fragment_by_start, end_index)]
                 IN stitch_join(b1, f_ix, g_ix, end)
            ELSE LET f_ix == b.fragment_by_end[start_index]
                     fbe1 == MapRemove(b.fragment_by_end, start_index)
                 IN IF ~Slab_contains(b.f, f_ix)
                    THEN Fail([b EXCEPT !.fragment_by_end = fbe1], "Unexpected")
                    ELSE LET fr == Slab_get(b.f, f_ix)
                         IN [b EXCEPT
                               !.f = Slab_set(b.f, f_ix,
                                        Fragment(fr.start, end_index, Append(fr.ring, end))),
                               !.fragment_by_end = MapInsert(fbe1, end_index, f_ix)]
       ELSE IF end_index \in DOMAIN b.fragment_by_start
            THEN LET f_ix == b.fragment_by_start[end_index]
                     fbs1 == MapRemove(b.fragment_by_start, end_index)
                 IN IF ~Slab_contains(b.f, f_ix)
                    THEN Fail([b EXCEPT !.fragment_by_start = fbs1], "Unexpected")
                    ELSE LET fr == Slab_get(b.f, f_ix)
                         IN [b EXCEPT
                               !.f = Slab_set(b.f, f_ix,
                                        Fragment(start_index, fr.end, <<start>> \o fr.ring)),
                               !.fragment_by_start = MapInsert(fbs1, start_index, f_ix)]
            ELSE LET ix == Slab_vacant_key(b.f)
                 IN [b EXCEPT
                       !.f = Slab_insert(b.f, Fragment(start_index, end_index, <<start, end>>)),
                       !.fragment_by_start = MapInsert(b.fragment_by_start, start_index, ix),
                       !.fragment_by_end = MapInsert(b.fragment_by_end, end_index, ix)]

(***************************************************************************)
(* One cell window of compute's scan: the four corner bits, the code, and  *)
(* the segments it feeds to stitch.                                        *)
(*     t3 t2                                                               *)
(*     t0 t1                                                               *)
(***************************************************************************)
\* Bit with an absent sample taken as below the threshold.
Bit_absent_low(g, t, x, y) ==
    LET v == get_point(g, x, y)
    IN IF v = None THEN 0 ELSE IF v >= t THEN 1 ELSE 0

Bit(g, t, x, y) ==
    LET v == get_point(g, x, y)
    IN IF v = None THEN None ELSE IF v >= t THEN 1 ELSE 0

Corners(g, t, x, y) ==
    << Bit(g, t, x - 1, y), Bit(g, t, x, y), Bit(g, t, x, y - 1), Bit(g, t, x - 1, y - 1) >>

AllPresent(c) == \A i \in 1..4 : c[i] # None

Code(c) == c[1] + 2 * c[2] + 4 * c[3] + 8 * c[4]

\* Variant of WindowSegments: an absent corner counts as below the threshold.
WindowSegments_absent_low(g, t, x, y) ==
    CASES[Code(<< Bit_absent_low(g, t, x - 1, y), Bit_absent_low(g, t, x, y),
                  Bit_absent_low(g, t, x, y - 1), Bit_absent_low(g, t, x - 1, y - 1) >>) + 1]

\* The segments window (x, y) feeds to stitch: none when a corner is absent.
WindowSegments(g, t, x, y) ==
    LET c == Corners(g, t, x, y)
    IN IF AllPresent(c) THEN CASES[Code(c) + 1] ELSE <<>>

\* case_stitch! : every segment of the window, in order; the first error ends it.
RECURSIVE case_stitch(_, _, _, _, _, _)
case_stitch(b, width, segs, k, x, y) ==
    IF k > Len(segs) \/ b.err # "" THEN b
    ELSE case_stitch(stitch(b, width, segs[k], x, y), width, segs, k + 1, x, y)

ScanWindowOp(b, g, t, x, y) ==
    case_stitch(b, size(g)[1], WindowSegments(g, t, x, y), 1, x, y)

(***************************************************************************)
(* IsoRingBuilder::new, ::clear and the steps of ::compute.                *)
(***************************************************************************)
\* The first window of extent number i of the list es (0, 0 past the list).
WindowAt(xs, i) ==
    IF i <= Len(xs) THEN <<xs[i].tlx, xs[i].tly>> ELSE <<0, 0>>

\* The scan position after window (x, y) of extent i:
\* for y in top_left.y..=bottom_right.y + 1, for x in top_left.x..=bottom_right.x + 1.
NextPos(xs, i, x, y) ==
    IF x < xs[i].brx + 1 THEN <<i, x + 1, y>>
    ELSE IF y < xs[i].bry + 1 THEN <<i, xs[i].tlx, y + 1>>
    ELSE <<i + 1, WindowAt(xs, i + 1)[1], WindowAt(xs, i + 1)[2]>>

\* The whole scan of compute from window (x, y) of extent i on: the builder
\* after the last window, or at the first error.
RECURSIVE compute_scan(_, _, _, _, _, _, _)
compute_scan(b, g, t, xs, i, x, y) ==
    IF i > Len(xs) \/ b.err # "" THEN b
    ELSE LET np == NextPos(xs, i, x, y)
         IN compute_scan(ScanWindowOp(b, g, t, x, y), g, t, xs, np[1], np[2], np[3])

\* The windows an extent makes compute scan.
Windows(e) == (e.tlx .. (e.brx + 1)) \X (e.tly .. (e.bry + 1))

\* clear with fragment_by_end.clear() forgotten.
clear_keeps_end_keys(b) == Builder(EmptyMap, b.fragment_by_end, Slab_new, b.result, b.err)

clear(b) == Builder(EmptyMap, EmptyMap, Slab_new, b.result, b.err)

\* The reset at the head of compute: if !self.is_empty { self.clear(); }
compute_reset(b, empty) == IF ~empty THEN clear(b) ELSE b


TheBuilder == Builder(fragment_by_start, fragment_by_end, f, result, "")

\* IsoRingBuilder::new()
IsoRingBuilder_new == Builder(EmptyMap, EmptyMap, Slab_new, <<>>, "")

\* compute(values, threshold) as one call on builder b whose is_empty flag
\* is `empty`: <<the builder after the call, its is_empty flag, the return value>>.
compute(b, empty, g, t) ==
    LET b0 == [compute_reset(b, empty) EXCEPT !.result = <<>>]
        xs == extents(g)
        b1 == compute_scan(b0, g, t, xs, 1, WindowAt(xs, 1)[1], WindowAt(xs, 1)[2])
    IN IF b1.err = ""
       THEN <<b1, FALSE, Ok(b1.result)>>
       ELSE <<b1, (IF ~empty THEN TRUE ELSE empty), Err(b1.err)>>

\* contour_rings(values, threshold): compute on a fresh builder.
contour_rings(g, t) == compute(IsoRingBuilder_new, TRUE, g, t)[3]

Idle == pc \in {"idle", "done", "failed"}

\* compute(values, threshold) is called: reset, result = Vec::new(), first window.
BeginCompute(t) ==
    /\ Idle
    /\ calls < MaxCalls
    /\ LET b == compute_reset(TheBuilder, is_empty)
           xs == extents(grid)
       IN /\ fragment_by_start' = b.fragment_by_start
          /\ fragment_by_end' = b.fragment_by_end
          /\ f' = b.f
          /\ is_empty' = IF ~is_empty THEN TRUE ELSE is_empty
          /\ es' = xs
          /\ ei' = 1
          /\ wx' = WindowAt(xs, 1)[1]
          /\ wy' = WindowAt(xs, 1)[2]
    /\ threshold' = t
    /\ result' = <<>>
    /\ ret' = Pending
    /\ pc' = "scan"
    /\ calls' = calls + 1
    /\ dirty' = (Live(f) # {} \/ DOMAIN fragment_by_start # {} \/ DOMAIN fragment_by_end # {})
    /\ UNCHANGED <<grid, call, cfg, out>>

\* One cell window: read the corners, feed its segments to stitch, move on.
\* An error of stitch ends compute at once (is_empty is left as it is).
ScanWindow ==
    /\ pc = "scan"
    /\ ei <= Len(es)
    /\ LET b == ScanWindowOp(TheBuilder, grid, threshold, wx, wy)
           np == NextPos(es, ei, wx, wy)
       IN /\ fragment_by_start' = b.fragment_by_start
          /\ fragment_by_end' = b.fragment_by_end
          /\ f' = b.f
          /\ result' = b.result
          /\ IF b.err = ""
             THEN /\ ei' = np[1] /\ wx' = np[2] /\ wy' = np[3]
                  /\ pc' = "scan"
                  /\ ret' = ret
             ELSE /\ UNCHANGED <<ei, wx, wy>>
                  /\ pc' = "failed"
                  /\ ret' = Err(b.err)
    /\ UNCHANGED <<grid, threshold, is_empty, es, calls, call, dirty, cfg, out>>

\* All extents scanned: self.is_empty = false; Ok(result).
FinishCompute ==
    /\ pc = "scan"
    /\ ei > Len(es)
    /\ is_empty' = FALSE
    /\ pc' = "done"
    /\ ret' = Ok(result)
    /\ UNCHANGED <<grid, threshold, fragment_by_start, fragment_by_end, f,
                   result, ei, wx, wy, es, calls, call, dirty, cfg, out>>

\* The caller calls clear() between two compute calls.
Clear ==
    /\ Idle
    /\ LET b == clear(TheBuilder)
       IN /\ fragment_by_start' = b.fragment_by_start
          /\ fragment_by_end' = b.fragment_by_end
          /\ f' = b.f
    /\ is_empty' = TRUE
    /\ UNCHANGED <<grid, threshold, result, pc, ei, wx, wy, es, calls, call, dirty,
                   ret, cfg, out>>

(***************************************************************************)
(* The grids and thresholds the scans are checked on.  Samples are 0 and   *)
(* 2, thresholds 1..3: 1 separates the two samples, 2 equals the high      *)
(* sample, 3 is above every sample.                                        *)
(***************************************************************************)
Samples == {0, 2}
Thresholds == 1..3

SmallBuffers ==
    UNION { { Buffer(d, w, h) : d \in [1..(w * h) -> Samples] } :
            <<w, h>> \in (1..MaxW) \X (1..MaxH) }

\* The 10x11 buffer of 0 with a 3-column by 5-row block of 2 at columns
\* c..c+2 and rows r..r+4.
BlockW == 10
BlockH == 11
BlockData(c, r) ==
    [i \in 1..(BlockW * BlockH) |->
        LET x == (i - 1) % BlockW
            y == (i - 1) \div BlockW
        IN IF x >= c /\ x <= c + 2 /\ y >= r /\ y <= r + 4 THEN 2 ELSE 0]
BlockBuffers ==
    { Buffer(BlockData(c, r), BlockW, BlockH) :
        <<c, r>> \in (1..(BlockW - 4)) \X (1..(BlockH - 6)) }

\* Tiled buffers, one row of tiles of 3x3 samples; every tile is unset or
\* holds one of the patterns of TilePalette (row-major).
TilePalette ==
    { <<0, 0, 0,  0, 0, 0,  0, 0, 0>>,
      <<2, 2, 2,  2, 2, 2,  2, 2, 2>>,
      <<0, 0, 0,  0, 2, 0,  0, 0, 0>>,
      <<0, 0, 0,  0, 0, 2,  0, 0, 0>>,
      <<0, 0, 0,  2, 0, 0,  0, 0, 0>>,
      <<2, 0, 2,  0, 2, 0,  2, 0, 2>>,
      <<2, 2, 2,  2, 0, 2,  2, 2, 2>> }
TiledGrids ==
    UNION { { [TiledBuffer_new(3, w, 1) EXCEPT !.tiles = ts] :
                ts \in [1..w -> TilePalette \cup {<<>>}] } :
            w \in 1..MaxTilesW }


ContourBuilder_new(smooth) ==
    [smooth |-> smooth, x_origin |-> 0, y_origin |-> 0, x_step |-> 1, y_step |-> 1]

InitBuilder ==
    /\ fragment_by_start = EmptyMap
    /\ fragment_by_end = EmptyMap
    /\ f = Slab_new
    /\ is_empty = TRUE
    /\ result = <<>>
    /\ threshold = 0
    /\ pc = "idle"
    /\ ei = 0 /\ wx = 0 /\ wy = 0
    /\ es = <<>>
    /\ calls = 0
    /\ ret = Pending

\* Buffers of 3 x 2 samples, some of them the sentinel, behind a NoDataMask.
NoData == 9
MaskedGrids ==
    { NoDataMask(Buffer(d, 3, 2), NoData) : d \in [1..6 -> Samples \cup {NoData}] }

Init ==
    /\ grid \in SmallBuffers \cup BlockBuffers \cup TiledGrids \cup MaskedGrids
    /\ InitBuilder
    /\ call = <<>>
    /\ dirty = FALSE
    /\ cfg = ContourBuilder_new(FALSE)
    /\ out = <<>>

Next ==
    \/ \E t \in Thresholds : BeginCompute(t)
    \/ ScanWindow
    \/ FinishCompute
    \/ Clear

Spec == Init /\ [][Next]_vars

(***************************************************************************)
(* area.rs (signed area of a ring, containment of a ring in a ring) is not *)
(* among the sources; area and contains are modelled from the              *)
(* specification: the signed area is the shoelace sum, positive for the    *)
(* rings compute winds around samples at or above the threshold; contains  *)
(* classifies the first vertex of the inner ring that is not on the        *)
(* boundary of the outer ring by an even-odd ray test, 1 inside, -1 (the   *)
(* not-contained sentinel) outside, 0 when every vertex is on the boundary.*)
(***************************************************************************)
Cross(p, q) == p[2] * q[1] - p[1] * q[2]

RECURSIVE AreaSum(_, _)
AreaSum(ring, i) ==
    IF i >= Len(ring) THEN 0
    ELSE Cross(ring[i], ring[i + 1]) + AreaSum(ring, i + 1)

\* 8 times the signed area of the ring (its points are doubled).
area(ring) ==
    IF Len(ring) = 0 THEN 0
    ELSE AreaSum(ring, 1) + Cross(ring[Len(ring)], ring[1])

Within(p, q, r) == (p <= q /\ q <= r) \/ (r <= q /\ q <= p)

\* c lies on the segment from a to b.
segment_contains(a, b, c) ==
    /\ (b[1] - a[1]) * (c[2] - a[2]) = (c[1] - a[1]) * (b[2] - a[2])
    /\ IF a[1] = b[1] THEN Within(a[2], c[2], b[2]) ELSE Within(a[1], c[1], b[1])

\* The edge from ring[j] to ring[i] is crossed by the ray from p towards -x.
Crosses(pi, pj, p) ==
    /\ (pi[2] > p[2]) # (pj[2] > p[2])
    /\ IF pj[2] > pi[2]
       THEN (p[1] - pi[1]) * (pj[2] - pi[2]) < (pj[1] - pi[1]) * (p[2] - pi[2])
       ELSE (p[1] - pi[1]) * (pj[2] - pi[2]) > (pj[1] - pi[1]) * (p[2] - pi[2])

Prev(ring, i) == IF i = 1 THEN Len(ring) ELSE i - 1

\* 1: p inside the ring, 0: on its boundary, -1: outside.
ring_contains(ring, p) ==
    IF \E i \in 1..Len(ring) : segment_contains(ring[i], ring[Prev(ring, i)], p)
    THEN 0
    ELSE IF Cardinality({i \in 1..Len(ring) : Crosses(ring[i], ring[Prev(ring, i)], p)}) % 2 = 1
         THEN 1 ELSE -1

RECURSIVE contains_from(_, _, _)
contains_from(ring, hole, i) ==
    IF i > Len(hole) THEN 0
    ELSE LET c == ring_contains(ring, hole[i])
         IN IF c # 0 THEN c ELSE contains_from(ring, hole, i + 1)

contains(ring, hole) == contains_from(ring, hole, 1)

(***************************************************************************)
(* ContourBuilder (contourbuilder.rs), for configurations with smoothing   *)
(* off.  x_origin, y_origin, x_step, y_step are integers; a point p maps   *)
(* to p * step + origin.                                                   *)
(***************************************************************************)
\* "Compute the polygon coordinates according to the grid properties if needed"
transform(c, ring) ==
    IF <<c.x_origin, c.y_origin>> # <<0, 0>> \/ <<c.x_step, c.y_step>> # <<1, 1>>
    THEN [i \in 1..Len(ring) |->
            <<ring[i][1] * c.x_step + 2 * c.x_origin,
              ring[i][2] * c.y_step + 2 * c.y_origin>>]
    ELSE ring

Polygon(exterior, interiors) == [exterior |-> exterior, interiors |-> interiors]

\* Variant of interiors_push: the hole goes to the first polygon of the list,
\* whether its exterior contains the hole or not.
interiors_push_first(polygons, hole, k) ==
    IF Len(polygons) = 0 THEN polygons
    ELSE [polygons EXCEPT ![1].interiors = Append(@, hole)]

\* holes.drain(..).for_each: the hole goes to the first polygon, in the
\* order of the list, whose exterior contains it; to none if there is none.
RECURSIVE interiors_push(_, _, _)
interiors_push(polygons, hole, k) ==
    IF k > Len(polygons) THEN polygons
    ELSE IF contains(polygons[k].exterior, hole) # -1
         THEN [polygons EXCEPT ![k].interiors = Append(@, hole)]
         ELSE interiors_push(polygons, hole, k + 1)

RECURSIVE attach_holes(_, _, _)
attach_holes(polygons, holes, h) ==
    IF h > Len(holes) THEN polygons
    ELSE attach_holes(interiors_push(polygons, holes[h], 1), holes, h + 1)

\* A ring is the exterior of a polygon of a contour.
is_exterior(ring) == area(ring) > 0

\* The rings of `rings` (in order) that meet / do not meet is_exterior.
RECURSIVE classify(_, _, _)
classify(rings, i, want) ==
    IF i > Len(rings) THEN <<>>
    ELSE (IF is_exterior(rings[i]) = want THEN <<rings[i]>> ELSE <<>>)
         \o classify(rings, i + 1, want)

\* ContourBuilder::contour after isoring.compute returned `rings`.
contour_polygons(c, rings) ==
    LET moved == [i \in 1..Len(rings) |-> transform(c, rings[i])]
        polygons == [i \in 1..Len(classify(moved, 1, TRUE)) |->
                        Polygon(classify(moved, 1, TRUE)[i], <<>>)]
        holes == classify(moved, 1, FALSE)
    IN attach_holes(polygons, holes, 1)

\* ContourBuilder::contours : one IsoRingBuilder for all thresholds, the
\* first error ends the call.  <<ok, the contours or the error kind>>.
RECURSIVE contours_from(_, _, _, _, _, _, _)
contours_from(c, g, thresholds, k, b, empty, acc) ==
    IF k > Len(thresholds) THEN [ok |-> TRUE, kind |-> "Ok", items |-> acc]
    ELSE LET r == compute(b, empty, g, thresholds[k])
         IN IF ~r[3].ok
            THEN [ok |-> FALSE, kind |-> r[3].kind, items |-> <<>>]
            ELSE contours_from(c, g, thresholds, k + 1, r[1], r[2],
                    Append(acc, [geometry |-> contour_polygons(c, r[3].rings),
                                 threshold |-> thresholds[k]]))

contours(c, g, thresholds) ==
    contours_from(c, g, thresholds, 1, IsoRingBuilder_new, TRUE, <<>>)

\* Vec::dedup : consecutive equal points become one.
RECURSIVE dedup(_)
dedup(ring) ==
    IF Len(ring) <= 1 THEN ring
    ELSE LET rest == dedup(Tail(ring))
         IN IF ring[1] = rest[1] THEN rest ELSE <<ring[1]>> \o rest

RECURSIVE SelectRings(_, _)
SelectRings(rings, i) ==
    IF i > Len(rings) THEN <<>>
    ELSE (IF Len(rings[i]) > 3 THEN <<rings[i]>> ELSE <<>>) \o SelectRings(rings, i + 1)

\* The rings of one threshold as isobands prepares them: dedup, transform,
\* and only the rings of more than 3 points.
band_rings(c, rings) ==
    SelectRings([i \in 1..Len(rings) |-> transform(c, dedup(rings[i]))], 1)

\* The key isobands sorts by: area.abs() as u64.
area_key(ring) == Abs(area(ring)) \div 8

\* sort_by_key (a stable sort), as an insertion sort.
RECURSIVE insert_sorted(_, _)
insert_sorted(sorted, ring) ==
    IF Len(sorted) = 0 THEN <<ring>>
    ELSE IF area_key(sorted[Len(sorted)]) <= area_key(ring)
         THEN Append(sorted, ring)
         ELSE Append(insert_sorted(SubSeq(sorted, 1, Len(sorted) - 1), ring),
                     sorted[Len(sorted)])

RECURSIVE sort_by_key(_, _, _)
sort_by_key(rings, i, acc) ==
    IF i > Len(rings) THEN acc
    ELSE sort_by_key(rings, i + 1, insert_sorted(acc, rings[i]))

\* enclosed_by_n[i] : how many other rings of the list contain ring i.
enclosed_by(rings, i) ==
    Cardinality({j \in 1..Len(rings) : j # i /\ contains(rings[j], rings[i]) # -1})

\* A ring of the sorted list becomes a polygon of the band (not an interior ring).
is_band_exterior(rings, i) == enclosed_by(rings, i) % 2 = 0

RECURSIVE band_classify(_, _, _)
band_classify(rings, i, want) ==
    IF i > Len(rings) THEN <<>>
    ELSE (IF is_band_exterior(rings, i) = want THEN <<rings[i]>> ELSE <<>>)
         \o band_classify(rings, i + 1, want)

Reverse(q) == [i \in 1..Len(q) |-> q[Len(q) + 1 - i]]

\* Variant of band_order: the polygons stay in ascending order.
band_order_kept(polygons) == polygons

\* The order in which the polygons of a band are returned.
band_order(polygons) == Reverse(polygons)

\* The polygons of the band between two thresholds from the rings of the
\* lower and of the upper threshold.
band_polygons(lower_path, upper_path) ==
    LET sorted == sort_by_key(lower_path \o upper_path, 1, <<>>)
        exts == band_classify(sorted, 1, TRUE)
        polygons == [i \in 1..Len(exts) |-> Polygon(exts[i], <<>>)]
        interior_rings == band_classify(sorted, 1, FALSE)
    IN band_order(attach_holes(polygons, interior_rings, 1))

\* The rings of every threshold, with one IsoRingBuilder; the first error ends it.
RECURSIVE rings_from(_, _, _, _, _, _, _)
rings_from(c, g, thresholds, k, b, empty, acc) ==
    IF k > Len(thresholds) THEN [ok |-> TRUE, kind |-> "Ok", items |-> acc]
    ELSE LET r == compute(b, empty, g, thresholds[k])
         IN IF ~r[3].ok
            THEN [ok |-> FALSE, kind |-> r[3].kind, items |-> <<>>]
            ELSE rings_from(c, g, thresholds, k + 1, r[1], r[2],
                    Append(acc, band_rings(c, r[3].rings)))

\* Variant of too_few: only an empty list of thresholds is refused.
too_few_empty(thresholds) == Len(thresholds) < 1

\* if thresholds.len() < 2 { return Err(Unexpected) }
too_few(thresholds) == Len(thresholds) < 2

\* ContourBuilder::isobands
isobands(c, g, thresholds) ==
    IF too_few(thresholds)
    THEN [ok |-> FALSE, kind |-> "Unexpected", items |-> <<>>]
    ELSE LET rings == rings_from(c, g, thresholds, 1, IsoRingBuilder_new, TRUE, <<>>)
         IN IF ~rings.ok THEN rings
            ELSE [ok |-> TRUE, kind |-> "Ok",
                  items |-> [k \in 1..(Len(thresholds) - 1) |->
                               [geometry |-> band_polygons(rings.items[k], rings.items[k + 1]),
                                min_v |-> thresholds[k],
                                max_v |-> thresholds[k + 1]]]]

(***************************************************************************)
(* ContourBuilder::lines, with the smoothing of smooth_linear.  A smoothed *)
(* coordinate is a quotient of samples: the points of a line are pairs of  *)
(* rationals <<n, d>> (the doubled coordinate n / d, d > 0, in lowest      *)
(* terms); d = 0 is an f64 that is not finite: <<1, 0>> is +inf, <<-1, 0>> *)
(* is -inf, <<0, 0>> is NaN.                                               *)
(***************************************************************************)
Sign(a) == IF a > 0 THEN 1 ELSE IF a < 0 THEN -1 ELSE 0

RECURSIVE GCD(_, _)
GCD(a, b) == IF b = 0 THEN a ELSE GCD(b, a % b)

\* The f64 quotient n / d.
Rat(n, d) ==
    IF d = 0 THEN <<Sign(n), 0>>
    ELSE LET k == GCD(Abs(n), Abs(d))
         IN <<(Sign(d) * n) \div k, Abs(d) \div k>>

\* r * k + o for integers k # 0 and o.
RatMulAdd(r, k, o) ==
    IF r[2] = 0 THEN <<r[1] * Sign(k), 0>>
    ELSE Rat(r[1] * k + o * r[2], r[2])

\* x.trunc() of the doubled coordinate X.
Trunc(X) == IF X >= 0 THEN X \div 2 ELSE -((-X) \div 2)

\* x + (value - v0) / (v1 - v0) - 0.5, doubled.
smooth_shift(X, value, v0, v1) ==
    IF v1 = v0 THEN Rat(value - v0, 0)
    ELSE Rat((X - 1) * (v1 - v0) + 2 * (value - v0), v1 - v0)

\* The body of smooth_linear for one point.
smooth_point(g, value, p) ==
    LET xt == Trunc(p[1])
        yt == Trunc(p[2])
        v1 == get_point(g, xt, yt)
        v0x == get_point(g, xt - 1, yt)
        v0y == get_point(g, xt, yt - 1)
    IN IF v1 = None THEN <<Rat(p[1], 1), Rat(p[2], 1)>>
       ELSE << IF p[1] > 0 /\ p[1] < 2 * size(g)[1] /\ p[1] % 2 = 0 /\ v0x # None
               THEN smooth_shift(p[1], value, v0x, v1) ELSE Rat(p[1], 1),
               IF p[2] > 0 /\ p[2] < 2 * size(g)[2] /\ p[2] % 2 = 0 /\ v0y # None
               THEN smooth_shift(p[2], value, v0y, v1) ELSE Rat(p[2], 1) >>

smooth_linear(ring, g, value) ==
    [j \in 1..Len(ring) |-> smooth_point(g, value, ring[j])]

\* Variant of line_transform: the origin is added before the step is applied.
line_transform_origin_first(c, ring) ==
    [j \in 1..Len(ring) |->
        <<RatMulAdd(RatMulAdd(ring[j][1], 1, 2 * c.x_origin), c.x_step, 0),
          RatMulAdd(RatMulAdd(ring[j][2], 1, 2 * c.y_origin), c.y_step, 0)>>]

\* ContourBuilder::line, "Compute the polygon coordinates according to the
\* grid properties if needed".
line_transform(c, ring) ==
    IF <<c.x_origin, c.y_origin>> # <<0, 0>> \/ <<c.x_step, c.y_step>> # <<1, 1>>
    THEN [j \in 1..Len(ring) |->
            <<RatMulAdd(ring[j][1], c.x_step, 2 * c.x_origin),
              RatMulAdd(ring[j][2], c.y_step, 2 * c.y_origin)>>]
    ELSE ring

\* ContourBuilder::line after isoring.compute returned `rings`.
line_strings(c, g, value, rings) ==
    [i \in 1..Len(rings) |->
        line_transform(c,
            IF c.smooth THEN smooth_linear(rings[i], g, value)
            ELSE [j \in 1..Len(rings[i]) |->
                    <<Rat(rings[i][j][1], 1), Rat(rings[i][j][2], 1)>>])]

\* ContourBuilder::lines : one IsoRingBuilder for all thresholds.
RECURSIVE lines_from(_, _, _, _, _, _, _)
lines_from(c, g, thresholds, k, b, empty, acc) ==
    IF k > Len(thresholds) THEN [ok |-> TRUE, kind |-> "Ok", items |-> acc]
    ELSE LET r == compute(b, empty, g, thresholds[k])
         IN IF ~r[3].ok
            THEN [ok |-> FALSE, kind |-> r[3].kind, items |-> <<>>]
            ELSE lines_from(c, g, thresholds, k + 1, r[1], r[2],
                    Append(acc, [geometry |-> line_strings(c, g, thresholds[k], r[3].rings),
                                 threshold |-> thresholds[k]]))

lines(c, g, thresholds) ==
    lines_from(c, g, thresholds, 1, IsoRingBuilder_new, TRUE, <<>>)

(***************************************************************************)
(* Calls of the contour layer (specification SpecLayer): one call of       *)
(* lines, of contours or of isobands on a Buffer.                          *)
(***************************************************************************)
\* Buffers of 9x9 samples in square bands around the centre: the sample at
\* distance d from the border (0..4) is levels[d + 1]; the border is 0
\* and the band next to it is 2.
RingsW == 9
Depth(x, y) == Min(Min(x, RingsW - 1 - x), Min(y, RingsW - 1 - y))
NestedData(levels) ==
    [i \in 1..(RingsW * RingsW) |->
        levels[Depth((i - 1) % RingsW, (i - 1) \div RingsW) + 1]]
Levels == {0, 2, 4}
NestedBuffers ==
    { Buffer(NestedData(l), RingsW, RingsW) : l \in {m \in [1..5 -> Levels] : m[1] = 0 /\ m[2] = 2} }

\* The nested buffers and every buffer of MaxW x MaxH samples.
LayerBuffers ==
    NestedBuffers \cup
    { Buffer(d, MaxW, MaxH) : d \in [1..(MaxW * MaxH) -> Samples] }

\* Origins and steps: the default, a scaled and moved grid, a grid whose y
\* axis points up.
Affine(c) ==
    { c,
      [c EXCEPT !.x_origin = 3, !.y_origin = -2, !.x_step = 2, !.y_step = 3],
      [c EXCEPT !.y_step = -1] }

Configs == Affine(ContourBuilder_new(FALSE))
SmoothConfigs == { ContourBuilder_new(TRUE) }

\* The nested buffers are taken at the default configuration.
NestedConfigs == { ContourBuilder_new(FALSE) }

ContourThresholds == { <<1>>, <<3>>, <<1, 3>> }
BandThresholds == { <<>>, <<1>>, <<1, 3>> }
LineThresholds == { <<1>>, <<1, 3>> }

CallLines(ths) ==
    /\ pc = "idle"
    /\ out' = lines(cfg, grid, ths)
    /\ call' = ths
    /\ pc' = "lines"
    /\ UNCHANGED <<grid, threshold, fragment_by_start, fragment_by_end, f, is_empty,
                   result, ei, wx, wy, es, calls, dirty, ret, cfg>>

\* contours and isobands of two or more thresholds are modelled for
\* smoothing off.
CallContours(ths) ==
    /\ pc = "idle"
    /\ ~cfg.smooth
    /\ out' = contours(cfg, grid, ths)
    /\ call' = ths
    /\ pc' = "contours"
    /\ UNCHANGED <<grid, threshold, fragment_by_start, fragment_by_end, f, is_empty,
                   result, ei, wx, wy, es, calls, dirty, ret, cfg>>

CallIsobands(ths) ==
    /\ pc = "idle"
    /\ cfg.smooth => too_few(ths)
    /\ out' = isobands(cfg, grid, ths)
    /\ call' = ths
    /\ pc' = "isobands"
    /\ UNCHANGED <<grid, threshold, fragment_by_start, fragment_by_end, f, is_empty,
                   result, ei, wx, wy, es, calls, dirty, ret, cfg>>

InitLayer ==
    /\ grid \in LayerBuffers
    /\ InitBuilder
    /\ call = <<>>
    /\ dirty = FALSE
    /\ cfg \in Configs \cup SmoothConfigs
    /\ grid \in NestedBuffers => cfg \in NestedConfigs
    /\ out = <<>>

NextLayer ==
    \/ \E ths \in ContourThresholds : CallContours(ths)
    \/ \E ths \in BandThresholds : CallIsobands(ths)
    \/ \E ths \in LineThresholds : CallLines(ths)

SpecLayer == InitLayer /\ [][NextLayer]_vars

(***************************************************************************)
(* Building and reading grids (specification SpecGrid): Buffer::new,       *)
(* NoDataMask::new and get_point, on the buffer or tiled buffer at hand:   *)
(* at most one Buffer::new, then at most one NoDataMask::new, then one     *)
(* get_point.                                                              *)
(***************************************************************************)
MaxDim == 2        \* widest and tallest Buffer built by Buffer::new
MaxCells == 4      \* longest data handed to Buffer::new
BufData == UNION { [1..n -> Samples] : n \in 0..MaxCells }
Far == 1000
Coords == {-Far, -1, 0, 1, 2, 3, 5, 6, Far}

NewBuffer(data, width, height) ==
    /\ pc = "idle"
    /\ LET r == Buffer_new(data, width, height)
       IN /\ grid' = IF r[2].ok THEN r[1] ELSE grid
          /\ ret' = r[2]
          /\ pc' = IF r[2].ok THEN "built" ELSE "rejected"
    /\ call' = [op |-> "new", data |-> data, width |-> width, height |-> height]
    /\ out' = <<>>
    /\ UNCHANGED <<threshold, fragment_by_start, fragment_by_end, f, is_empty, result,
                   ei, wx, wy, es, calls, dirty, cfg>>

NewMask(no_data) ==
    /\ pc \in {"idle", "built"}
    /\ pc' = "masked"
    /\ grid' = NoDataMask(grid, no_data)
    /\ call' = [op |-> "mask", no_data |-> no_data]
    /\ out' = <<>>
    /\ UNCHANGED <<threshold, fragment_by_start, fragment_by_end, f, is_empty, result,
                   ei, wx, wy, es, calls, dirty, ret, cfg>>

GetPoint(x, y) ==
    /\ pc \in {"idle", "built", "masked"}
    /\ pc' = "read"
    /\ out' = get_point(grid, x, y)
    /\ call' = [op |-> "get_point", x |-> x, y |-> y]
    /\ UNCHANGED <<grid, threshold, fragment_by_start, fragment_by_end, f, is_empty,
                   result, ei, wx, wy, es, calls, dirty, ret, cfg>>

InitGrid ==
    /\ grid \in TiledGrids
    /\ InitBuilder
    /\ call = [op |-> "none"]
    /\ dirty = FALSE
    /\ cfg = ContourBuilder_new(FALSE)
    /\ out = <<>>

NextGrid ==
    \/ \E data \in BufData, width \in 0..MaxDim, height \in 0..MaxDim :
          NewBuffer(data, width, height)
    \/ \E no_data \in Samples : NewMask(no_data)
    \/ \E x \in Coords, y \in Coords : GetPoint(x, y)

SpecGrid == InitGrid /\ [][NextGrid]_vars

(***************************************************************************)
(* Building a TiledBuffer: TiledBuffer::new, then set_tile calls with      *)
(* tile indices in and out of range and data of the right and of a wrong   *)
(* length (specification SpecTiles).                                       *)
(***************************************************************************)
TileData == { <<0, 0, 0, 0>>, <<2, 2, 2, 2>>, <<0, 0, 0>>, <<>> }

SetTile(x, y, data) ==
    /\ pc = "idle"
    /\ LET r == set_tile(grid, x, y, data)
       IN /\ grid' = r[1]
          /\ ret' = r[2]
          /\ pc' = IF r[2] = Panic THEN "panicked" ELSE "idle"
    /\ call' = [x |-> x, y |-> y, data |-> data, before |-> grid.tiles]
    /\ UNCHANGED <<threshold, fragment_by_start, fragment_by_end, f, is_empty, result,
                   ei, wx, wy, es, calls, dirty, cfg, out>>

InitTiles ==
    /\ grid \in { TiledBuffer_new(2, w, h) : <<w, h>> \in (1..MaxTilesW) \X (1..MaxTilesH) }
    /\ InitBuilder
    /\ call = <<>>
    /\ dirty = FALSE
    /\ cfg = ContourBuilder_new(FALSE)
    /\ out = <<>>

NextTiles ==
    \E x \in 0..(grid.width + 1), y \in 0..(grid.height + 1), data \in TileData :
        SetTile(x, y, data)

SpecTiles == InitTiles /\ [][NextTiles]_vars

\* The tile next to tile idx in the direction of extent number no (5: top
\* right, 6: right, 7: bottom right, 8: bottom), as <<t_x, t_y>>.
Neighbor(g, idx, no) ==
    LET t_x == idx % g.width
        t_y == idx \div g.width
    IN CASE no = 5 -> <<t_x + 1, t_y - 1>>
         [] no = 6 -> <<t_x + 1, t_y>>
         [] no = 7 -> <<t_x + 1, t_y + 1>>
         [] OTHER -> <<t_x, t_y + 1>>

Emitted(g, idx, no) ==
    \E i \in 1..Len(extents(g)) : extents(g)[i].tile = idx /\ extents(g)[i].no = no

\* C4: for every populated tile, each of the extents 5 to 8 is emitted only
\* if there is no populated neighbor tile in its direction, and is not
\* emitted when there is one.
C4_BorderOnlyWithoutNeighbor ==
    \A idx \in 0..(Len(grid.tiles) - 1), no \in 5..8 :
      Len(grid.tiles[idx + 1]) # 0 =>
        LET n == Neighbor(grid, idx, no)
        IN /\ Emitted(grid, idx, no) => ~has_tile(grid, n[1], n[2])
           /\ has_tile(grid, n[1], n[2]) => ~Emitted(grid, idx, no)

\* C5: set_tile(x, y, data) returns BadDimension, without a panic and with
\* every tile as it was, when data has the wrong length or x >= W or y >= H;
\* otherwise it returns Ok and replaces exactly the tile at (x, y).
C5_SetTileChecked ==
    call # <<>> =>
      IF \/ Len(call.data) # grid.ts * grid.ts
         \/ call.x >= grid.width
         \/ call.y >= grid.height
      THEN /\ ret = Err("BadDimension")
           /\ grid.tiles = call.before
      ELSE /\ ret = Ok(<<>>)
           /\ grid.tiles =
                [call.before EXCEPT ![call.y * grid.width + call.x + 1] = call.data]

(***************************************************************************)
(* Properties of the scan (specification Spec).                            *)
(***************************************************************************)
Points(ring) == {ring[i] : i \in 1..Len(ring)}

Closed(ring) == Len(ring) >= 1 /\ ring[1] = ring[Len(ring)]

\* The rings of the fragments still in the arena.
OpenRings == {Slab_get(f, k).ring : k \in Live(f)}

\* C1: every ring compute has emitted or returned is closed (first point =
\* last point) and has at least 3 distinct points, and no fragment that is
\* still in the arena when the scan is over is among the returned rings.
C1_RingsClosed ==
    /\ \A i \in 1..Len(result) :
          Closed(result[i]) /\ Cardinality(Points(result[i])) >= 3
    /\ pc = "done" =>
          /\ ret.rings = result
          /\ \A i \in 1..Len(ret.rings) : ret.rings[i] \notin OpenRings

\* A tiled buffer whose scan returned a ring and dropped an open fragment.
C1_Witness ==
    /\ pc = "done"
    /\ grid.kind = "tiled"
    /\ Len(ret.rings) >= 1
    /\ Live(f) # {}

\* The block of a block buffer: <<c, r>> with the block at columns c..c+2
\* and rows r..r+4.
IsBlock(g, c, r) == g = Buffer(BlockData(c, r), BlockW, BlockH)

BlockOrigins == (1..(BlockW - 4)) \X (1..(BlockH - 6))

\* The doubled position of sample (i, j) when a point with integer x = k
\* lies between samples k - 1 and k: sample i sits at i + 1/2.
SamplePos(i, j) == <<2 * i + 1, 2 * j + 1>>

\* p lies midway between sample (i, j) of the block and a 4-adjacent sample
\* outside the block.
OnBlockBoundary(p, c, r) ==
    \E i \in c..(c + 2), j \in r..(r + 4) :
      \E d \in {<<1, 0>>, <<-1, 0>>, <<0, 1>>, <<0, -1>>} :
        /\ ~(i + d[1] \in c..(c + 2) /\ j + d[2] \in r..(r + 4))
        /\ p = <<SamplePos(i, j)[1] + d[1], SamplePos(i, j)[2] + d[2]>>

\* C2: on the 10x11 buffer with a 3x5 block (threshold between the two
\* values) compute returns exactly one ring, every point of it lies midway
\* between a block sample and a 4-adjacent background sample, and its
\* bounding box is x in [c, c+3], y in [r, r+5].
C2_BlockRing ==
    \A o \in BlockOrigins :
      (pc = "done" /\ threshold = 1 /\ IsBlock(grid, o[1], o[2])) =>
        /\ Len(ret.rings) = 1
        /\ \A p \in Points(ret.rings[1]) :
              /\ OnBlockBoundary(p, o[1], o[2])
              /\ p[1] >= 2 * o[1] /\ p[1] <= 2 * (o[1] + 3)
              /\ p[2] >= 2 * o[2] /\ p[2] <= 2 * (o[2] + 5)
        /\ \E p \in Points(ret.rings[1]) : p[1] = 2 * o[1]
        /\ \E p \in Points(ret.rings[1]) : p[1] = 2 * (o[1] + 3)
        /\ \E p \in Points(ret.rings[1]) : p[2] = 2 * o[2]
        /\ \E p \in Points(ret.rings[1]) : p[2] = 2 * (o[2] + 5)

\* C3: the extents of the grid do not overlap: no two of them make compute
\* scan the same cell window, so the window being scanned was not scanned
\* under an earlier extent of the same call.
C3_NoWindowTwice ==
    /\ \A i, j \in 1..Len(es) : i # j => Windows(es[i]) \cap Windows(es[j]) = {}
    /\ (pc = "scan" /\ ei <= Len(es)) =>
          \A j \in 1..(ei - 1) : <<wx, wy>> \notin Windows(es[j])

AtScanStart == pc = "scan" /\ ei = 1 /\ <<wx, wy>> = WindowAt(es, 1)

\* C6: when a compute call begins scanning, whatever the earlier calls on
\* the builder left behind, the arena and both key maps are empty, and the
\* call returns the rings a fresh builder returns for the grid and threshold.
C6_ResetPerCall ==
    /\ AtScanStart =>
          /\ Live(f) = {}
          /\ DOMAIN fragment_by_start = {}
          /\ DOMAIN fragment_by_end = {}
    /\ pc = "done" => ret = contour_rings(grid, threshold)

\* A second call on a builder that the first call left with open fragments
\* has returned rings.
C6_Witness ==
    /\ pc = "done"
    /\ calls = 2
    /\ dirty
    /\ Len(ret.rings) >= 1

\* The samples of the grid that are present.
Present(g) ==
    LET sz == size(g)
    IN { get_point(g, x, y) : <<x, y>> \in (0..sz[1]) \X (0..sz[2]) } \ {None}

Uniform(g, t) ==
    \/ \A v \in Present(g) : v < t
    \/ \A v \in Present(g) : v >= t

\* C7: for a grid whose present samples are all below the threshold, or all
\* at or above it, compute returns no ring.
C7_UniformNoRings ==
    (pc = "done" /\ Uniform(grid, threshold)) => (ret.ok /\ ret.rings = <<>>)

\* A scan over a grid of at least 3x3 present samples, all of them at or
\* above the threshold, is over.
C7_Witness ==
    /\ pc = "done"
    /\ Uniform(grid, threshold)
    /\ Cardinality({ <<x, y>> \in (0..size(grid)[1]) \X (0..size(grid)[2]) :
                       get_point(grid, x, y) # None }) >= 9
    /\ \A v \in Present(grid) : v >= threshold

(***************************************************************************)
(* Properties of the calls of contours and isobands (SpecLayer).           *)
(***************************************************************************)
\* The rings compute returns for threshold t, as contours sees them.
MovedRings(t) ==
    LET rings == contour_rings(grid, t).rings
    IN [i \in 1..Len(rings) |-> transform(cfg, rings[i])]

\* The rings isobands builds the band of call[k], call[k + 1] from.
BandRings(k) ==
    band_rings(cfg, contour_rings(grid, call[k]).rings)
        \o band_rings(cfg, contour_rings(grid, call[k + 1]).rings)

\* The members of the index set S, ordered by Rank.
Ordered(S, Rank(_)) ==
    [m \in 1..Cardinality(S) |->
        CHOOSE i \in S : Cardinality({j \in S : Rank(j) < Rank(i)}) = m - 1]

\* polygons is the classification of rings R: the rings that are exteriors,
\* in the order of Rank, each with the holes whose first containing exterior
\* (in that order) it is, and no other ring.
Classified(polygons, R, IsExt(_), Rank(_)) ==
    LET exts == Ordered({i \in 1..Len(R) : IsExt(i)}, Rank)
        holes == {i \in 1..Len(R) : ~IsExt(i)}
        Hosts(h) == {m \in 1..Len(exts) : contains(R[exts[m]], R[h]) # -1}
        Held(m) == {h \in holes : m \in Hosts(h) /\ \A n \in Hosts(h) : m <= n}
    IN /\ Len(polygons) = Len(exts)
       /\ \A m \in 1..Len(exts) :
            /\ polygons[m].exterior = R[exts[m]]
            /\ polygons[m].interiors =
                 [n \in 1..Cardinality(Held(m)) |-> R[Ordered(Held(m), Rank)[n]]]

\* p is inside the polygon: inside its exterior and outside all its holes.
InPolygon(p, polygon) ==
    /\ ring_contains(polygon.exterior, p) = 1
    /\ \A h \in 1..Len(polygon.interiors) : ring_contains(polygon.interiors[h], p) = -1

InteriorSamples(g) ==
    {<<i, j>> \in (1..(g.width - 2)) \X (1..(g.height - 2)) : TRUE}

\* C8: isobands with two thresholds lower < upper, smoothing off, on a
\* Buffer returns one band, and every interior sample whose value is
\* strictly between the thresholds is inside exactly one polygon of it.
C8_BandCoversSamples ==
    (pc = "isobands" /\ Len(call) = 2 /\ ~cfg.smooth /\ grid.kind = "buffer")
    => (call[1] < call[2]
        => /\ out.ok
           /\ Len(out.items) = 1
           /\ \A s \in InteriorSamples(grid) :
                LET v == get_point(grid, s[1], s[2])
                    p == transform(cfg, <<SamplePos(s[1], s[2])>>)[1]
                    geometry == out.items[1].geometry
                IN (call[1] < v /\ v < call[2])
                   => Cardinality({k \in 1..Len(geometry) :
                                     InPolygon(p, geometry[k])}) = 1)

\* C9: in contours, the rings of strictly positive signed area are the
\* exteriors of the polygons, one each, in the order they were emitted;
\* every other ring is a hole, attached to the first exterior in that order
\* that contains it and to no other polygon.
C9_ContourClassification ==
    (pc = "contours" /\ out.ok)
    => /\ Len(out.items) = Len(call)
       /\ \A k \in 1..Len(call) :
            LET R == MovedRings(call[k])
                IsExt(i) == area(R[i]) > 0
                Rank(i) == i
            IN /\ out.items[k].threshold = call[k]
               /\ Classified(out.items[k].geometry, R, IsExt, Rank)

\* Two exteriors, and a hole that the first exterior does not contain.
C9_Witness ==
    /\ pc = "contours"
    /\ out.ok
    /\ \E k \in 1..Len(out.items) :
         LET g == out.items[k].geometry
         IN /\ Len(g) >= 2
            /\ Len(g[2].interiors) >= 1
            /\ contains(g[1].exterior, g[2].interiors[1]) = -1

\* C10: in isobands, for each pair of consecutive thresholds, a ring of the
\* lower and upper rings together is an exterior when an even number of the
\* other rings contain it and a hole when an odd number do; a hole goes to
\* the first exterior, in ascending order of truncated absolute area, that
\* contains it; the polygons are returned in the reverse of that order.
C10_BandClassification ==
    (pc = "isobands" /\ out.ok)
    => /\ Len(out.items) = Len(call) - 1
       /\ \A k \in 1..(Len(call) - 1) :
            LET R == BandRings(k)
                Others(i) == {j \in 1..Len(R) : j # i /\ contains(R[j], R[i]) # -1}
                IsExt(i) == Cardinality(Others(i)) % 2 = 0
                Key(i) == Abs(area(R[i])) \div 8
                Rank(i) == Cardinality({j \in 1..Len(R) :
                               Key(j) < Key(i) \/ (Key(j) = Key(i) /\ j < i)})
            IN /\ out.items[k].min_v = call[k]
               /\ out.items[k].max_v = call[k + 1]
               /\ Classified(Reverse(out.items[k].geometry), R, IsExt, Rank)

\* A band of two polygons with a hole each: four rings, one inside the other.
C10_Witness ==
    /\ pc = "isobands"
    /\ out.ok
    /\ \E k \in 1..Len(out.items) :
         LET g == out.items[k].geometry
         IN /\ Len(g) = 2
            /\ Len(g[1].interiors) = 1
            /\ Len(g[2].interiors) = 1
            /\ contains(g[1].exterior, g[2].exterior) = 1
            /\ area_key(g[1].exterior) > area_key(g[2].exterior)

\* C11: isobands called with no threshold or with one returns the Unexpected
\* error and no band, for every grid and every configuration of the builder.
C11_TooFewThresholds ==
    (pc = "isobands" /\ Len(call) < 2)
    => (~out.ok /\ out.kind = "Unexpected" /\ out.items = <<>>)

\* One threshold, on a grid that has rings for it.
C11_Witness ==
    /\ pc = "isobands"
    /\ Len(call) = 1
    /\ out.kind = "Unexpected"
    /\ contour_rings(grid, call[1]).rings # <<>>

\* C12: with smoothing off, the points of lines are the points p of
\* contour_rings, rings and points in the same order, mapped to
\* p * step + origin; undoing the map gives the rings of the default
\* configuration.
C12_LinesAffine ==
    (pc = "lines" /\ ~cfg.smooth /\ out.ok)
    => /\ Len(out.items) = Len(call)
       /\ \A k \in 1..Len(call) :
            LET R == contour_rings(grid, call[k]).rings
                L == out.items[k].geometry
                D == lines(ContourBuilder_new(FALSE), grid, <<call[k]>>).items[1].geometry
            IN /\ Len(L) = Len(R)
               /\ Len(D) = Len(R)
               /\ \A i \in 1..Len(R) :
                    /\ Len(L[i]) = Len(R[i])
                    /\ Len(D[i]) = Len(R[i])
                    /\ \A j \in 1..Len(R[i]) :
                         /\ L[i][j] = << <<R[i][j][1] * cfg.x_step + 2 * cfg.x_origin, 1>>,
                                         <<R[i][j][2] * cfg.y_step + 2 * cfg.y_origin, 1>> >>
                         /\ D[i][j] = << Rat(L[i][j][1][1] - 2 * cfg.x_origin * L[i][j][1][2],
                                             cfg.x_step * L[i][j][1][2]),
                                         Rat(L[i][j][2][1] - 2 * cfg.y_origin * L[i][j][2][2],
                                             cfg.y_step * L[i][j][2][2]) >>

\* Lines of a moved and scaled grid with at least one ring.
C12_Witness ==
    /\ pc = "lines"
    /\ ~cfg.smooth
    /\ out.ok
    /\ <<cfg.x_origin, cfg.x_step>> = <<3, 2>>
    /\ \E k \in 1..Len(out.items) : Len(out.items[k].geometry) >= 1

(***************************************************************************)
(* Properties of the grids (SpecGrid).                                     *)
(***************************************************************************)
\* The sample of g at (x, y), or None: a Buffer has one for the coordinates
\* of its rectangle, a TiledBuffer for the coordinates of its set tiles, a
\* NoDataMask where the wrapped grid has one that is not the sentinel.
RECURSIVE SampleAt(_, _, _)
SampleAt(g, x, y) ==
    CASE g.kind = "buffer" ->
           IF 0 <= x /\ x < g.width /\ 0 <= y /\ y < g.height
           THEN g.tiles[1][y * g.width + x + 1] ELSE None
      [] g.kind = "tiled" ->
           IF /\ 0 <= x /\ x < g.width * g.ts
              /\ 0 <= y /\ y < g.height * g.ts
              /\ g.tiles[(y \div g.ts) * g.width + (x \div g.ts) + 1] # <<>>
           THEN g.tiles[(y \div g.ts) * g.width + (x \div g.ts) + 1]
                       [(y % g.ts) * g.ts + (x % g.ts) + 1]
           ELSE None
      [] g.kind = "mask" ->
           IF SampleAt(g.inner, x, y) = g.no_data THEN None
           ELSE SampleAt(g.inner, x, y)

\* C13: get_point returns for every coordinate, the sample where the grid
\* has one and absent elsewhere; size and extents of a NoDataMask are those
\* of the grid it wraps.
C13_GetPointTotal ==
    /\ call.op = "get_point" => out = SampleAt(grid, call.x, call.y)
    /\ grid.kind = "mask" =>
          (size(grid) = size(grid.inner) /\ extents(grid) = extents(grid.inner))

\* A lookup that the mask turned into absent.
C13_Witness ==
    /\ call.op = "get_point"
    /\ grid.kind = "mask"
    /\ out = None
    /\ get_point(grid.inner, call.x, call.y) = grid.no_data

\* C14: Buffer::new returns BadDimension exactly when the data is not
\* width * height long; the buffer it returns otherwise has data[y * width + x]
\* at every (x, y) of its rectangle.
C14_BufferNew ==
    call.op = "new"
    => /\ ret.ok <=> Len(call.data) = call.width * call.height
       /\ ~ret.ok => ret.kind = "BadDimension"
       /\ ret.ok =>
            /\ grid.kind = "buffer"
            /\ \A x \in 0..(call.width - 1), y \in 0..(call.height - 1) :
                 get_point(grid, x, y) = call.data[y * call.width + x + 1]

\* A 2 x 2 buffer was built from data with both sample values.
C14_Witness ==
    /\ call.op = "new"
    /\ ret.ok
    /\ call.width = 2
    /\ call.height = 2
    /\ get_point(grid, 1, 0) # get_point(grid, 0, 1)

(***************************************************************************)
(* Properties of the case table and of the scan of one window (Spec).      *)
(***************************************************************************)
\* The corners t0, t1, t2, t3 of a window in the coordinates of the case
\* table (doubled):   t3 t2
\*                    t0 t1
CornerOffset == << <<1, 3>>, <<3, 3>>, <<3, 1>>, <<1, 1>> >>
\* The samples compute reads for t0, t1, t2, t3 of window (x, y), from (x, y).
CornerAt == << <<-1, 0>>, <<0, 0>>, <<0, -1>>, <<-1, -1>> >>
CellEdges == { <<1, 2>>, <<2, 3>>, <<3, 4>>, <<4, 1>> }
EdgeMid(e) ==
    << (CornerOffset[e[1]][1] + CornerOffset[e[2]][1]) \div 2,
       (CornerOffset[e[1]][2] + CornerOffset[e[2]][2]) \div 2 >>
BitOf(code, i) == (code \div (2 ^ (i - 1))) % 2
Endpoints(segs) == { segs[k][n] : k \in 1..Len(segs), n \in 1..2 }

\* The window compute is about to scan has four present corners.
AtFullWindow ==
    /\ pc = "scan"
    /\ ei <= Len(es)
    /\ \A i \in 1..4 :
          get_point(grid, wx + CornerAt[i][1], wy + CornerAt[i][2]) # None

\* C15: the case table has 16 entries; the entry of the code
\* t0 | t1 << 1 | t2 << 2 | t3 << 3 of a window has no segment for codes 0
\* and 15, two segments with four different endpoints for codes 5 and 10,
\* one segment otherwise, and every endpoint is the midpoint of a cell edge
\* whose two corners have different bits.
C15_CaseTable ==
    /\ Len(CASES) = 16
    /\ \A code \in 0..15 :
         LET segs == CASES[code + 1]
         IN /\ code \in {0, 15} => Len(segs) = 0
            /\ code \in {5, 10} => (Len(segs) = 2 /\ Cardinality(Endpoints(segs)) = 4)
            /\ code \notin {0, 5, 10, 15} => Len(segs) = 1
            /\ \A p \in Endpoints(segs) :
                 \E e \in CellEdges :
                    EdgeMid(e) = p /\ BitOf(code, e[1]) # BitOf(code, e[2])
    /\ AtFullWindow =>
         LET c == Corners(grid, threshold, wx, wy)
         IN \A i \in 1..4 :
               BitOf(Code(c), i) =
                  (IF get_point(grid, wx + CornerAt[i][1], wy + CornerAt[i][2]) >= threshold
                   THEN 1 ELSE 0)

\* compute is about to scan a saddle window.
C15_Witness ==
    /\ AtFullWindow
    /\ Code(Corners(grid, threshold, wx, wy)) \in {5, 10}

\* The builder after `segs` have been stitched in order at window (wx, wy).
Stitched(segs) ==
    LET w == size(grid)[1]
        b0 == TheBuilder
        b1 == IF Len(segs) >= 1 THEN stitch(b0, w, segs[1], wx, wy) ELSE b0
        b2 == IF Len(segs) >= 2 /\ b1.err = "" THEN stitch(b1, w, segs[2], wx, wy) ELSE b1
    IN b2

\* C16: the scan of a window with an absent corner (outside the domain, in
\* a tile that is not set, or masked) stitches nothing; the scan of a window
\* with four present corners stitches the segments of its case-table entry.
C16_AbsentCornerSkips ==
    [][ (pc = "scan" /\ ei <= Len(es))
        => IF AtFullWindow
           THEN LET b == Stitched(CASES[Code(Corners(grid, threshold, wx, wy)) + 1])
                IN <<fragment_by_start', fragment_by_end', f', result'>>
                     = <<b.fragment_by_start, b.fragment_by_end, b.f, b.result>>
           ELSE UNCHANGED <<fragment_by_start, fragment_by_end, f, result>> ]_vars

\* A window inside the domain is skipped because the mask hides a corner,
\* where the wrapped buffer has a crossing.
C16_Witness ==
    /\ pc = "scan"
    /\ ei <= Len(es)
    /\ grid.kind = "mask"
    /\ ~AtFullWindow
    /\ AllPresent(Corners(grid.inner, threshold, wx, wy))
    /\ get_point(grid, wx, wy) # None
    /\ \E q \in {<<wx - 1, wy>>, <<wx, wy - 1>>, <<wx - 1, wy - 1>>} :
          get_point(grid, q[1], q[2]) # None /\
          (get_point(grid, q[1], q[2]) >= threshold) # (get_point(grid, wx, wy) >= threshold)

(***************************************************************************)
(* Properties of the bookkeeping of stitch (Spec).                         *)
(***************************************************************************)
\* The two key maps of builder b and its arena name each other: a key of a
\* map names a live slot whose fragment has that key as its start (its end),
\* and every live fragment is found under its start and under its end.
InBijection(b) ==
    /\ \A k \in DOMAIN b.fragment_by_start :
          /\ Slab_contains(b.f, b.fragment_by_start[k])
          /\ Slab_get(b.f, b.fragment_by_start[k]).start = k
    /\ \A k \in DOMAIN b.fragment_by_end :
          /\ Slab_contains(b.f, b.fragment_by_end[k])
          /\ Slab_get(b.f, b.fragment_by_end[k]).end = k
    /\ \A i \in Live(b.f) :
          /\ Slab_get(b.f, i).start \in DOMAIN b.fragment_by_start
          /\ b.fragment_by_start[Slab_get(b.f, i).start] = i
          /\ Slab_get(b.f, i).end \in DOMAIN b.fragment_by_end
          /\ b.fragment_by_end[Slab_get(b.f, i).end] = i

\* The builder after the first segment of the window about to be scanned.
AfterFirstSegment ==
    LET segs == WindowSegments(grid, threshold, wx, wy)
    IN IF pc = "scan" /\ ei <= Len(es) /\ Len(segs) >= 1
       THEN stitch(TheBuilder, size(grid)[1], segs[1], wx, wy)
       ELSE TheBuilder

\* C18: after every stitch step of compute the key maps and the arena are
\* in one-to-one correspondence; compute returns no Unexpected error and no
\* slot removal panics.
C18_MapsMatchArena ==
    /\ pc \in {"scan", "done", "failed"} =>
          (InBijection(TheBuilder) /\ InBijection(AfterFirstSegment))
    /\ pc # "failed"
    /\ ret.kind \notin {"Unexpected", "panic"}

\* The endpoints of every segment compute feeds to stitch for grid g at
\* threshold t, with the windows that produce them.
SegmentEndpoints(g, t) ==
    LET xs == extents(g)
        ws == UNION { Windows(xs[i]) : i \in 1..Len(xs) }
    IN UNION { LET segs == WindowSegments(g, t, w[1], w[2])
               IN { [point |-> <<segs[k][n][1] + 2 * w[1], segs[k][n][2] + 2 * w[2]>>,
                     window |-> w] : n \in 1..2, k \in 1..Len(segs) }
               : w \in ws }

SmoothReads(g, p, a) ==
    LET xt == Trunc(p[1])
        yt == Trunc(p[2])
    IN [v1 |-> get_point(g, xt, yt),
        v0 |-> IF a = 1 THEN get_point(g, xt - 1, yt) ELSE get_point(g, xt, yt - 1)]

\* The samples read bracket the threshold t.
Brackets(r, t) ==
    /\ r.v0 # None
    /\ r.v1 # None
    /\ (r.v0 >= t) # (r.v1 >= t)

\* The smoothed coordinate s (a quotient of doubled units) is finite and at
\* most 0.5 away from the coordinate X it was computed from.
ShiftWithinHalf(s, X) ==
    /\ s[2] # 0
    /\ Abs(s[1] - X * s[2]) <= s[2]

\* C17: in a smoothed lines call on a Buffer, for every point of every
\* ring of compute and every axis along which the point lies on a crossing
\* (its coordinate is integral), the two samples smooth_linear reads are
\* present and bracket the threshold, and the smoothed coordinate is finite
\* and at most 0.5 away from the unsmoothed one.
C17_SmoothReadsBracket ==
    (pc = "lines" /\ cfg.smooth /\ grid.kind = "buffer") =>
       \A k \in 1..Len(call) :
          LET rings == contour_rings(grid, call[k]).rings
          IN \A i \in 1..Len(rings) : \A j \in 1..Len(rings[i]) :
                LET pt == rings[i][j]
                    s == smooth_point(grid, call[k], pt)
                IN \A a \in 1..2 :
                      /\ pt[a] % 2 = 0 => Brackets(SmoothReads(grid, pt, a), call[k])
                      /\ ShiftWithinHalf(s[a], pt[a])

(***************************************************************************)
(* Classification and the affine configuration (SpecLayer).                *)
(***************************************************************************)
\* The exteriors of the polygons of a geometry.
Exteriors(geometry) == { geometry[n].exterior : n \in 1..Len(geometry) }

\* C20: in contours, a ring of compute that is an exterior with the default
\* origin and step (its area is positive) is, moved to the configured origin
\* and step, the exterior of a polygon of the contour, whatever the
\* configuration.
C20_ClassificationAffineInvariant ==
    (pc = "contours" /\ out.ok) =>
       \A k \in 1..Len(call) :
          LET rings == contour_rings(grid, call[k]).rings
          IN \A i \in 1..Len(rings) :
                is_exterior(rings[i]) =>
                   transform(cfg, rings[i]) \in Exteriors(out.items[k].geometry)

====
